---- MODULE Spec2Model ----
(***************************************************************************)
(* Fruit Dealer Game: the transaction engine (GameEngine.buy, sell,        *)
(* travel) over the domain records of models.py, with the price table     *)
(* written by PricingSystem.regenerate_all_prices.                         *)
(*                                                                         *)
(* Money is an integer number of cents.  The float factors of the pricing  *)
(* formula (specialty modifier, random factor) are carried in hundredths:  *)
(* 1.1 is 110, 0.8 is 80; int(base * modifier * factor) is then            *)
(* (base * modifier * factor) \div 10000.                                  *)
(***************************************************************************)
EXTENDS Integers, Sequences, FiniteSets, TLC

VARIABLES
    money,          \* game.player.money
    inventory,      \* game.player.inventory: dict fruit name -> quantity
    current_city,   \* game.player.current_city (the City, held by its name)
    current_day,    \* game.current_day
    markets,        \* game.markets: list of Market(city, prices)
    result,         \* the last call: its arguments and what it returned or raised
    saved           \* the save file game.json: NoFile, or the dict last written to it

vars == <<money, inventory, current_city, current_day, markets, result, saved>>

-----------------------------------------------------------------------------
(* Bounds of the model *)

\* the largest quantity a call is made with
MaxQty == 2
\* the last day a travel may reach (a new game starts at day 1)
MaxDay == 2
\* in the unrestricted-quantity specification: the magnitude a holding may reach
MaxHold == 2
\* in the session specification: the most money a sale may leave the player with
MaxMoney == 88

-----------------------------------------------------------------------------
(* Python dicts: functions whose DOMAIN is the key set *)

EmptyDict == <<>>

\* d.get(k, default)
Get(d, k, default) == IF k \in DOMAIN d THEN d[k] ELSE default

\* d[k] = v
Put(d, k, v) == [x \in (DOMAIN d) \cup {k} |-> IF x = k THEN v ELSE d[x]]

\* the value None
None == [none |-> TRUE]

\* no file at GAME_FILE
NoFile == [nofile |-> TRUE]

-----------------------------------------------------------------------------
(* The world of setup_data, cut to its first two fruits and first two cities *)

fruits ==
    << [name |-> "Apple",  base_price |-> 100],
       [name |-> "Banana", base_price |-> 80] >>

cities ==
    << [name |-> "Helsinki", specialties |-> [Apple |-> 110, Banana |-> 100]],
       [name |-> "Tampere",  specialties |-> [Cherry |-> 90, Banana |-> 105]] >>

FruitNames == {fruits[i].name : i \in 1..Len(fruits)}
CityNames == {cities[i].name : i \in 1..Len(cities)}

\* names a caller may pass: the fruits of the world and one that is no fruit of it
FruitArgs == FruitNames \cup {"Kiwi"}
\* names a caller may pass: the cities of the world and one that is no city of it
CityArgs == CityNames \cup {"InvalidCity"}

\* the flat travel cost
travel_cost == 50

-----------------------------------------------------------------------------
(* PricingSystem *)

\* random.uniform(0.8, 1.2), in hundredths: both ends of the range
RandomFactors == {80, 120}

\* one draw per (market, fruit) of a regeneration
Draws == [1..Len(cities) -> [1..Len(fruits) -> RandomFactors]]

\* city.specialties.get(fruit.name, 1.0)
city_modifier(city, fruit) == Get(city.specialties, fruit.name, 100)

\* <<base_price, city_modifier, random_factor>> whose product is an integer
\* that Python's float arithmetic misses from below: 100 * 1.15 is
\* 114.99999999999999 and 325 * 1.15 * 0.8 is 298.99999999999994. These are
\* all such triples among the fruits, cities and factors of this module.
float_below == { <<100, 115, 100>>, <<100, 115, 120>>, <<325, 115, 80>> }

\* int(fruit.base_price * city_modifier * random_factor)
price_of(city, fruit, random_factor) ==
    LET m == city_modifier(city, fruit)
        exact == (fruit.base_price * m * random_factor) \div 10000
    IN  IF <<fruit.base_price, m, random_factor>> \in float_below
        THEN exact - 1
        ELSE exact

\* _calculate_market_prices with the random factor drawn once, before the loop
calculate_market_prices_one_factor(city, draw) ==
    [n \in FruitNames |->
        LET i == CHOOSE j \in 1..Len(fruits) : fruits[j].name = n
        IN  price_of(city, fruits[i], draw[1])]

\* _calculate_market_prices: a fresh dict with one entry per fruit
calculate_market_prices(city, draw) ==
    [n \in FruitNames |->
        LET i == CHOOSE j \in 1..Len(fruits) : fruits[j].name = n
        IN  price_of(city, fruits[i], draw[i])]

CityByName(name) ==
    cities[CHOOSE i \in 1..Len(cities) : cities[i].name = name]

\* regenerate_all_prices that updates each market's dict with the new prices
regenerate_all_prices_merged(ms, draws) ==
    [k \in 1..Len(ms) |->
        [city |-> ms[k].city,
         prices |-> LET new == calculate_market_prices(CityByName(ms[k].city), draws[k])
                    IN  [n \in (DOMAIN ms[k].prices) \cup (DOMAIN new) |->
                            IF n \in DOMAIN new THEN new[n] ELSE ms[k].prices[n]]]]

\* regenerate_all_prices that leaves the markets as they are
regenerate_all_prices_skipped(ms, draws) == ms

\* regenerate_all_prices: every market's prices replaced by a new dict
regenerate_all_prices(ms, draws) ==
    [k \in 1..Len(ms) |->
        [city |-> ms[k].city,
         prices |-> calculate_market_prices(CityByName(ms[k].city), draws[k])]]

\* get_price with a missing entry read as 1
get_price_default_one(fruit_name, city_name) ==
    IF \E k \in 1..Len(markets) : markets[k].city = city_name
    THEN LET k == CHOOSE j \in 1..Len(markets) :
                    /\ markets[j].city = city_name
                    /\ \A h \in 1..(j - 1) : markets[h].city # city_name
         IN  Get(markets[k].prices, fruit_name, 1)
    ELSE 1

\* get_price: the first market of that city, 0 when there is none or no entry
get_price(fruit_name, city_name) ==
    IF \E k \in 1..Len(markets) : markets[k].city = city_name
    THEN LET k == CHOOSE j \in 1..Len(markets) :
                    /\ markets[j].city = city_name
                    /\ \A h \in 1..(j - 1) : markets[h].city # city_name
         IN  Get(markets[k].prices, fruit_name, 0)
    ELSE 0

-----------------------------------------------------------------------------
(* GameEngine *)

\* a slip: the first market is taken when none is the player's city's
get_current_market_or_first ==
    IF \E k \in 1..Len(markets) : markets[k].city = current_city
    THEN markets[CHOOSE j \in 1..Len(markets) :
                    /\ markets[j].city = current_city
                    /\ \A h \in 1..(j - 1) : markets[h].city # current_city]
    ELSE IF markets # <<>> THEN markets[1] ELSE None

\* _get_current_market: the first market whose city is the player's, else None
get_current_market ==
    IF \E k \in 1..Len(markets) : markets[k].city = current_city
    THEN markets[CHOOSE j \in 1..Len(markets) :
                    /\ markets[j].city = current_city
                    /\ \A h \in 1..(j - 1) : markets[h].city # current_city]
    ELSE None

\* a call that raises ValueError(msg): nothing but the outcome is written
Raise(op, name, quantity, msg) ==
    /\ result' = [op |-> op, name |-> name, quantity |-> quantity,
                  returned |-> FALSE, error |-> msg]
    /\ UNCHANGED <<money, inventory, current_city, current_day, markets>>

\* a call that returns True
Returned(op, name, quantity) ==
    [op |-> op, name |-> name, quantity |-> quantity,
     returned |-> TRUE, error |-> ""]

\* fruit_name not in market.prices
not_in_market(fruit_name, market) == fruit_name \notin DOMAIN market.prices

\* a slip: the quantity left out of the cost
total_cost_unit_price(price, quantity) == price

\* price * quantity
total_cost(price, quantity) == price * quantity

\* a slip: the quantity left out of the proceeds
sale_value_unit_price(price, quantity) == price

\* sell's price * quantity
sale_value(price, quantity) == price * quantity

\* a slip: the last cent may not be spent
not_enough_funds_strict(cost, m) == cost >= m

\* a slip: the comparison turned around
not_enough_funds_inverted(cost, m) == cost < m

\* buy's funds check
not_enough_funds(cost, m) == cost > m

\* a slip: only an empty holding is refused
not_enough_inventory_only_empty(quantity, current_qty) == current_qty <= 0

\* a slip: the comparison turned around
not_enough_inventory_inverted(quantity, current_qty) == quantity < current_qty

\* sell's inventory check
not_enough_inventory(quantity, current_qty) == quantity > current_qty

buy(fruit_name, quantity) ==
    LET market == get_current_market IN
    IF market = None
    THEN Raise("buy", fruit_name, quantity, "No market for " \o current_city)
    ELSE IF not_in_market(fruit_name, market)
    THEN Raise("buy", fruit_name, quantity,
               "Fruit not found in market: " \o fruit_name)
    ELSE LET price == market.prices[fruit_name]
             cost == total_cost(price, quantity)
         IN  IF not_enough_funds(cost, money)
             THEN Raise("buy", fruit_name, quantity,
                        "Not enough funds to buy " \o ToString(quantity) \o " " \o fruit_name)
             ELSE /\ money' = money - cost
                  /\ inventory' = Put(inventory, fruit_name,
                                      Get(inventory, fruit_name, 0) + quantity)
                  /\ result' = Returned("buy", fruit_name, quantity)
                  /\ UNCHANGED <<current_city, current_day, markets>>

\* a slip: the holding is checked before the market is
sell_inventory_check_first(fruit_name, quantity) ==
    LET market == get_current_market IN
    IF market = None
    THEN Raise("sell", fruit_name, quantity, "No market for " \o current_city)
    ELSE LET current_qty == Get(inventory, fruit_name, 0) IN
         IF not_enough_inventory(quantity, current_qty)
         THEN Raise("sell", fruit_name, quantity,
                    "Not enough " \o fruit_name \o " to sell " \o ToString(quantity))
         ELSE IF not_in_market(fruit_name, market)
         THEN Raise("sell", fruit_name, quantity,
                    "Fruit not found in market: " \o fruit_name)
         ELSE LET price == market.prices[fruit_name] IN
              /\ money' = money + sale_value(price, quantity)
              /\ inventory' = Put(inventory, fruit_name, current_qty - quantity)
              /\ result' = Returned("sell", fruit_name, quantity)
              /\ UNCHANGED <<current_city, current_day, markets>>

sell(fruit_name, quantity) ==
    LET market == get_current_market IN
    IF market = None
    THEN Raise("sell", fruit_name, quantity, "No market for " \o current_city)
    ELSE IF not_in_market(fruit_name, market)
    THEN Raise("sell", fruit_name, quantity,
               "Fruit not found in market: " \o fruit_name)
    ELSE LET current_qty == Get(inventory, fruit_name, 0) IN
         IF not_enough_inventory(quantity, current_qty)
         THEN Raise("sell", fruit_name, quantity,
                    "Not enough " \o fruit_name \o " to sell " \o ToString(quantity))
         ELSE LET price == market.prices[fruit_name] IN
              /\ money' = money + sale_value(price, quantity)
              /\ inventory' = Put(inventory, fruit_name, current_qty - quantity)
              /\ result' = Returned("sell", fruit_name, quantity)
              /\ UNCHANGED <<current_city, current_day, markets>>

\* a slip: the city the player is in is not looked for
find_city_elsewhere(city_name) ==
    IF \E i \in 1..Len(cities) : cities[i].name = city_name /\ city_name # current_city
    THEN cities[CHOOSE i \in 1..Len(cities) : cities[i].name = city_name]
    ELSE None

\* a slip: a name that matches no city is taken for a city of that name
find_city_unchecked(city_name) ==
    IF \E i \in 1..Len(cities) : cities[i].name = city_name
    THEN cities[CHOOSE i \in 1..Len(cities) :
                    /\ cities[i].name = city_name
                    /\ \A h \in 1..(i - 1) : cities[h].name # city_name]
    ELSE [name |-> city_name, specialties |-> EmptyDict]

\* a slip: the first city is the default of the search
find_city_default_first(city_name) ==
    IF \E i \in 1..Len(cities) : cities[i].name = city_name
    THEN cities[CHOOSE i \in 1..Len(cities) :
                    /\ cities[i].name = city_name
                    /\ \A h \in 1..(i - 1) : cities[h].name # city_name]
    ELSE cities[1]

\* next((c for c in self.game.cities if c.name == city_name), None)
find_city(city_name) ==
    IF \E i \in 1..Len(cities) : cities[i].name = city_name
    THEN cities[CHOOSE i \in 1..Len(cities) :
                    /\ cities[i].name = city_name
                    /\ \A h \in 1..(i - 1) : cities[h].name # city_name]
    ELSE None

\* a slip: only a player with no money at all is refused
not_enough_travel_funds_only_broke(m) == m <= 0

\* travel's funds check
not_enough_travel_funds(m) == m < travel_cost

\* a slip: = +1 written for += 1
next_day_assigned_one(day) == 1

\* a slip: the increment left out
next_day_same(day) == day

\* self.game.current_day += 1
next_day(day) == day + 1

\* _advance_day: the day counter, then every market's prices
advance_day ==
    /\ current_day' = next_day(current_day)
    /\ \E draws \in Draws : markets' = regenerate_all_prices(markets, draws)

\* a slip: the funds are checked before the city is looked up
travel_funds_check_first(city_name) ==
    LET city == find_city(city_name) IN
    IF not_enough_travel_funds(money)
    THEN Raise("travel", city_name, 0,
               "Not enough funds to travel to " \o city_name
                 \o ". You need " \o ToString(travel_cost) \o " more.")
    ELSE IF city = None
    THEN Raise("travel", city_name, 0, "City not found: " \o city_name)
    ELSE /\ money' = money - travel_cost
         /\ current_city' = city.name
         /\ advance_day
         /\ result' = Returned("travel", city_name, 0)
         /\ UNCHANGED inventory

\* a slip: the day is advanced before the funds are checked
travel_advance_before_funds_check(city_name) ==
    LET city == find_city(city_name) IN
    IF city = None
    THEN Raise("travel", city_name, 0, "City not found: " \o city_name)
    ELSE IF not_enough_travel_funds(money)
    THEN /\ advance_day
         /\ result' = [op |-> "travel", name |-> city_name, quantity |-> 0,
                       returned |-> FALSE,
                       error |-> "Not enough funds to travel to " \o city_name
                           \o ". You need " \o ToString(travel_cost) \o " more."]
         /\ UNCHANGED <<money, inventory, current_city>>
    ELSE /\ money' = money - travel_cost
         /\ current_city' = city.name
         /\ advance_day
         /\ result' = Returned("travel", city_name, 0)
         /\ UNCHANGED inventory

travel(city_name) ==
    LET city == find_city(city_name) IN
    IF city = None
    THEN Raise("travel", city_name, 0, "City not found: " \o city_name)
    ELSE IF not_enough_travel_funds(money)
    THEN Raise("travel", city_name, 0,
               "Not enough funds to travel to " \o city_name
                 \o ". You need " \o ToString(travel_cost) \o " more.")
    ELSE /\ money' = money - travel_cost
         /\ current_city' = city.name
         /\ advance_day
         /\ result' = Returned("travel", city_name, 0)
         /\ UNCHANGED inventory

-----------------------------------------------------------------------------
(* The games an engine is constructed over *)

\* player money at construction: setup_data gives 200000; a fixture or a loaded
\* save gives any amount
StartMoney == {0, 50, 88, 138}

\* player inventory at construction: setup_data gives {}; a fixture or a loaded
\* save gives any holdings
StartInventories ==
    { EmptyDict,
      [Apple |-> 1, Kiwi |-> 1] }

\* setup_data's markets, before the pricing system fills them
empty_markets == [k \in 1..Len(cities) |-> [city |-> cities[k].name, prices |-> EmptyDict]]

\* GameEngine(game): PricingSystem.__init__ regenerates all prices once
Init ==
    /\ money \in StartMoney
    /\ inventory \in StartInventories
    /\ current_city = cities[1].name
    /\ current_day = 1
    /\ \E draws \in Draws : markets = regenerate_all_prices(empty_markets, draws)
    /\ result = [op |-> "init", name |-> "", quantity |-> 0,
                 returned |-> TRUE, error |-> ""]
    /\ saved = NoFile

\* the quantities the engine's contract admits
Quantities == 1..MaxQty
\* every integer a caller could pass
AnyQuantities == (0 - MaxQty)..MaxQty

\* the engine's calls write no file
Buy == \E f \in FruitArgs, q \in Quantities : buy(f, q) /\ UNCHANGED saved

Sell == \E f \in FruitArgs, q \in Quantities : sell(f, q) /\ UNCHANGED saved

Travel ==
    \E c \in CityArgs :
        /\ current_day < MaxDay \/ find_city(c) = None \/ not_enough_travel_funds(money)
        /\ travel(c)
        /\ UNCHANGED saved

Next == Buy \/ Sell \/ Travel

Spec == Init /\ [][Next]_vars

\* one day of trading, the engine called with any integer quantity
BuyAny ==
    \E f \in FruitArgs, q \in AnyQuantities :
        /\ Get(inventory, f, 0) + q >= 0 - MaxHold
        /\ buy(f, q)
        /\ UNCHANGED saved

SellAny ==
    \E f \in FruitArgs, q \in AnyQuantities :
        /\ Get(inventory, f, 0) - q <= MaxHold
        /\ sell(f, q)
        /\ UNCHANGED saved

NextAnyQty == BuyAny \/ SellAny

SpecAnyQty == Init /\ [][NextAnyQty]_vars

\* an engine that is only asked to travel
SpecTravel == Init /\ [][Travel]_vars

\* market lists of a game in which a city has no market: a caller may build
\* the Game with any list, and the engine's tests move the player to a city
\* that has none
SparseMarkets ==
    { <<>>,
      << empty_markets[1] >>,
      << empty_markets[2] >> }

\* GameEngine(game) over such a game
InitSparse ==
    /\ money \in StartMoney
    /\ inventory \in StartInventories
    /\ current_city = cities[1].name
    /\ current_day = 1
    /\ \E ms \in SparseMarkets, draws \in Draws :
            markets = regenerate_all_prices(ms, draws)
    /\ result = [op |-> "init", name |-> "", quantity |-> 0,
                 returned |-> TRUE, error |-> ""]
    /\ saved = NoFile

SpecSparse == InitSparse /\ [][Next]_vars

-----------------------------------------------------------------------------
(* persistence, and the session the CLI runs *)

\* the name the player entered
player_name == "Player"

\* datetime.now() as formatted by serialize_game; nothing ever reads it back
created_at == "2026-01-01 12:00:00"

\* engine.game: the Game the engine holds, its city references as City objects
game ==
    [fruits |-> fruits,
     cities |-> cities,
     player |-> [name |-> player_name, money |-> money, inventory |-> inventory,
                 current_city |-> CityByName(current_city)],
     markets |-> [k \in 1..Len(markets) |->
                    [city |-> CityByName(markets[k].city),
                     prices |-> markets[k].prices]],
     current_day |-> current_day]

\* serialize_game: cities are written by name, in the markets and for the player
serialize_game(g) ==
    [fruits |-> g.fruits,
     cities |-> g.cities,
     markets |-> [k \in 1..Len(g.markets) |->
                    [city |-> g.markets[k].city.name,
                     prices |-> g.markets[k].prices]],
     player |-> [name |-> g.player.name, money |-> g.player.money,
                 inventory |-> g.player.inventory,
                 current_city |-> g.player.current_city.name],
     current_day |-> g.current_day,
     created_at |-> created_at]

\* city_lookup = {city.name: city for city in cities}: the last city of a name
city_lookup(cs, name) ==
    cs[CHOOSE i \in 1..Len(cs) :
            /\ cs[i].name = name
            /\ \A j \in (i + 1)..Len(cs) : cs[j].name # name]

\* deserialize_game with every city reference resolved to the first city
deserialize_game_first_city(game_data) ==
    [fruits |-> game_data.fruits,
     cities |-> game_data.cities,
     player |-> [name |-> game_data.player.name,
                 money |-> game_data.player.money,
                 inventory |-> game_data.player.inventory,
                 current_city |-> game_data.cities[1]],
     markets |-> [k \in 1..Len(game_data.markets) |->
                    [city |-> game_data.cities[1],
                     prices |-> game_data.markets[k].prices]],
     current_day |-> game_data.current_day]

\* deserialize_game: the Game rebuilt, city names resolved through city_lookup
deserialize_game(game_data) ==
    [fruits |-> game_data.fruits,
     cities |-> game_data.cities,
     player |-> [name |-> game_data.player.name,
                 money |-> game_data.player.money,
                 inventory |-> game_data.player.inventory,
                 current_city |-> city_lookup(game_data.cities,
                                              game_data.player.current_city)],
     markets |-> [k \in 1..Len(game_data.markets) |->
                    [city |-> city_lookup(game_data.cities, game_data.markets[k].city),
                     prices |-> game_data.markets[k].prices]],
     current_day |-> game_data.current_day]

\* GameEngine(g): the engine's state is g's, and PricingSystem.__init__ runs
\* regenerate_all_prices over g's markets
GameEngine(g) ==
    /\ money' = g.player.money
    /\ inventory' = g.player.inventory
    /\ current_city' = g.player.current_city.name
    /\ current_day' = g.current_day
    /\ \E draws \in Draws :
            markets' = regenerate_all_prices(
                           [k \in 1..Len(g.markets) |->
                               [city |-> g.markets[k].city.name,
                                prices |-> g.markets[k].prices]], draws)

\* a store_game that builds a pricing system of its own
store_game_repricing ==
    /\ saved' = serialize_game(game)
    /\ \E draws \in Draws : markets' = regenerate_all_prices(markets, draws)
    /\ UNCHANGED <<money, inventory, current_city, current_day>>

\* store_game: json.dump of the serialized engine; strings, integers and
\* string-keyed dicts come back from json.load as they went in
store_game ==
    /\ saved' = serialize_game(game)
    /\ UNCHANGED <<money, inventory, current_city, current_day, markets>>

\* a file at GAME_FILE that is not JSON
Corrupted == [corrupted |-> TRUE]

\* the keyword arguments Fruit(**fruit) and City(**city) need, and those they take
fruit_required == {"name", "base_price"}
fruit_fields == {"name", "base_price", "emoji", "description"}
city_required == {"name", "specialties"}
city_fields == {"name", "position", "specialties"}

\* a dict is not a valid argument list of a dataclass: TypeError
bad_kwargs(d, required, fields) ==
    ~(required \subseteq DOMAIN d) \/ ~(DOMAIN d \subseteq fields)

\* city_lookup[name] raises KeyError
no_city(cs, name) == \A i \in 1..Len(cs) : cs[i].name # name

\* the exception deserialize_game raises on game_data, "" when it returns:
\* the statements in their order, the first that fails
deserialize_raises(game_data) ==
    IF "fruits" \notin DOMAIN game_data THEN "KeyError"
    ELSE IF \E i \in 1..Len(game_data.fruits) :
                bad_kwargs(game_data.fruits[i], fruit_required, fruit_fields)
         THEN "TypeError"
    ELSE IF "cities" \notin DOMAIN game_data THEN "KeyError"
    ELSE IF \E i \in 1..Len(game_data.cities) :
                bad_kwargs(game_data.cities[i], city_required, city_fields)
         THEN "TypeError"
    ELSE IF "markets" \notin DOMAIN game_data THEN "KeyError"
    ELSE IF \E k \in 1..Len(game_data.markets) :
                \/ "city" \notin DOMAIN game_data.markets[k]
                \/ no_city(game_data.cities, game_data.markets[k].city)
                \/ "prices" \notin DOMAIN game_data.markets[k]
         THEN "KeyError"
    ELSE IF "player" \notin DOMAIN game_data THEN "KeyError"
    ELSE IF "current_city" \notin DOMAIN game_data.player THEN "KeyError"
    ELSE IF no_city(game_data.cities, game_data.player.current_city) THEN "KeyError"
    ELSE IF ~({"name", "money", "inventory"} \subseteq DOMAIN game_data.player)
         THEN "KeyError"
    ELSE IF "current_day" \notin DOMAIN game_data THEN "KeyError"
    ELSE ""

\* load_game under menu choice 2. FileNotFoundError, json.JSONDecodeError and
\* KeyError are caught and reported, and the menu shows again; any other
\* exception is not caught and ends the programme; else the engine is built on
\* the deserialized game
load_game ==
    IF saved = NoFile
    THEN /\ Raise("load", "", 0, "No save file found.")
         /\ UNCHANGED saved
    ELSE IF saved = Corrupted
    THEN /\ Raise("load", "", 0, "Save file is corrupted.")
         /\ UNCHANGED saved
    ELSE IF deserialize_raises(saved) = "KeyError"
    THEN /\ Raise("load", "", 0, "Save file is incompatible.")
         /\ UNCHANGED saved
    ELSE IF deserialize_raises(saved) # ""
    THEN /\ Raise("crash", "load", 0, deserialize_raises(saved))
         /\ UNCHANGED saved
    ELSE /\ GameEngine(deserialize_game(saved))
         /\ result' = Returned("load", "", 0)
         /\ UNCHANGED saved

\* the player's money in a new game (setup_data: 200000), scaled to the prices
NewGameMoney == {88}

\* the main menu is showing: at the start, after quit, after a load that failed
AtMenu ==
    \/ result.op \in {"menu", "quit"}
    \/ result.op = "load" /\ ~result.returned

\* the programme ended on an exception nothing caught
Crashed == result.op = "crash"

\* cli() returned: menu choice 3
Exited == result.op = "exit"

\* the game loop is running
InGame == ~AtMenu /\ ~Crashed /\ ~Exited

\* the programme starts at the main menu, no engine built and no save file
InitSession ==
    /\ money = 0
    /\ inventory = EmptyDict
    /\ current_city = ""
    /\ current_day = 0
    /\ markets = <<>>
    /\ result = [op |-> "menu", name |-> "", quantity |-> 0,
                 returned |-> TRUE, error |-> ""]
    /\ saved = NoFile

\* menu choice 1: start_new_game, then store_game
NewGame ==
    /\ AtMenu
    /\ \E m \in NewGameMoney, draws \in Draws :
        LET ms == regenerate_all_prices(empty_markets, draws)
        IN  /\ money' = m
            /\ inventory' = EmptyDict
            /\ current_city' = cities[1].name
            /\ current_day' = 1
            /\ markets' = ms
            /\ saved' = serialize_game(
                   [fruits |-> fruits, cities |-> cities,
                    player |-> [name |-> player_name, money |-> m,
                                inventory |-> EmptyDict, current_city |-> cities[1]],
                    markets |-> [k \in 1..Len(ms) |->
                                    [city |-> CityByName(ms[k].city),
                                     prices |-> ms[k].prices]],
                    current_day |-> 1])
    /\ result' = Returned("new", "", 0)

\* menu choice 2: load_game, and the game loop if it returned an engine
Load == AtMenu /\ load_game

\* the commands of the game loop, one unit of a fruit of the world at a time
SessionBuy ==
    /\ InGame
    /\ \E f \in FruitNames : buy(f, 1)
    /\ UNCHANGED saved

\* selling after a reload can bring more than the purchase cost: the session is
\* followed while the player's money stays within MaxMoney
SessionSell ==
    /\ InGame
    /\ \E f \in FruitNames : sell(f, 1)
    /\ money' <= MaxMoney
    /\ UNCHANGED saved

SessionTravel ==
    /\ InGame
    /\ current_day < MaxDay \/ not_enough_travel_funds(money)
    /\ \E c \in CityNames : travel(c)
    /\ UNCHANGED saved

\* command save
Save ==
    /\ InGame
    /\ store_game
    /\ result' = Returned("save", "", 0)

\* command quit: back to the main menu, the engine and the file as they are
Quit ==
    /\ InGame
    /\ result' = Returned("quit", "", 0)
    /\ UNCHANGED <<money, inventory, current_city, current_day, markets, saved>>

NextSession ==
    NewGame \/ Load \/ SessionBuy \/ SessionSell \/ SessionTravel \/ Save \/ Quit

SpecSession == InitSession /\ [][NextSession]_vars

-----------------------------------------------------------------------------
(* a session that starts with a file at GAME_FILE and only reads it *)

\* d without the key
Without(d, key) == [k \in (DOMAIN d) \ {key} |-> d[k]]

\* a file as store_game writes it: the first day of a game, the player in the
\* first city holding one Apple
good_save ==
    serialize_game(
        [fruits |-> fruits, cities |-> cities,
         player |-> [name |-> player_name, money |-> 88,
                     inventory |-> [Apple |-> 1], current_city |-> cities[1]],
         markets |-> [k \in 1..Len(cities) |->
                        [city |-> cities[k],
                         prices |-> calculate_market_prices(cities[k], <<80, 120>>)]],
         current_day |-> 1])

\* a file whose first market prices a name that is no fruit of the game, and
\* not every fruit (the save of test_persistence.py prices Apple alone)
stale_save ==
    [good_save EXCEPT !.markets[1].prices = [Apple |-> 80, Durian |-> 5]]

\* the files GAME_FILE may hold when the programme starts
SaveFiles ==
    { good_save,
      stale_save,
      Corrupted,
      Without(good_save, "current_day"),
      Without(good_save, "markets"),
      [good_save EXCEPT !.fruits[1] = Without(@, "base_price")],
      [good_save EXCEPT !.cities[2] = Without(@, "specialties")],
      [good_save EXCEPT !.markets[2] = Without(@, "prices")],
      [good_save EXCEPT !.player = Without(@, "money")],
      [good_save EXCEPT !.markets[2].city = "Atlantis"],
      [good_save EXCEPT !.player.current_city = "Atlantis"] }

\* the programme starts at the main menu, no engine built, a file in place
InitLoaded ==
    /\ money = 0
    /\ inventory = EmptyDict
    /\ current_city = ""
    /\ current_day = 0
    /\ markets = <<>>
    /\ result = [op |-> "menu", name |-> "", quantity |-> 0,
                 returned |-> TRUE, error |-> ""]
    /\ saved \in SaveFiles

\* menu choice 2 and the commands that write no file
NextLoaded == Load \/ SessionBuy \/ SessionSell \/ SessionTravel \/ Quit

SpecLoaded == InitLoaded /\ [][NextLoaded]_vars

-----------------------------------------------------------------------------
(* PricingSystem on a game of one fruit and one city, as the pricing tests build it *)

\* fruits a game may hold: setup_data's five, one of base price 1, one of 325
PricingFruits ==
    { [name |-> "Apple",  base_price |-> 100],
      [name |-> "Banana", base_price |-> 80],
      [name |-> "Cherry", base_price |-> 150],
      [name |-> "Grape",  base_price |-> 120],
      [name |-> "Orange", base_price |-> 110],
      [name |-> "Lime",   base_price |-> 1],
      [name |-> "Melon",  base_price |-> 325] }

\* cities a game may hold: setup_data's five, and one with a specialty for Melon
PricingCities ==
    { [name |-> "Helsinki", specialties |-> [Apple |-> 110, Banana |-> 100]],
      [name |-> "Tampere",  specialties |-> [Cherry |-> 90, Banana |-> 105]],
      [name |-> "Turku",    specialties |-> [Orange |-> 80, Grape |-> 120]],
      [name |-> "Oulu",     specialties |-> [Banana |-> 95, Apple |-> 115]],
      [name |-> "Pori",     specialties |-> [Apple |-> 80, Grape |-> 105]],
      [name |-> "Kotka",    specialties |-> [Melon |-> 115]] }

\* random.uniform(0.8, 1.2), in hundredths: the ends, the middle, two between
PricingFactors == {80, 90, 100, 110, 120}

PricingFruit(name) == CHOOSE f \in PricingFruits : f.name = name
PricingCity(name) == CHOOSE c \in PricingCities : c.name = name

\* regenerate_all_prices on the game of one city and one fruit
priced_market(city, fruit, random_factor) ==
    << [city |-> city.name,
        prices |-> [n \in {fruit.name} |-> price_of(city, fruit, random_factor)]] >>

\* PricingSystem(game), the game made of one fruit and one city and their market
InitPricing ==
    /\ money = 0
    /\ inventory = EmptyDict
    /\ current_day = 1
    /\ \E city \in PricingCities, fruit \in PricingFruits, rf \in PricingFactors :
            /\ current_city = city.name
            /\ markets = priced_market(city, fruit, rf)
    /\ result = [op |-> "init", name |-> "", quantity |-> 0,
                 returned |-> TRUE, error |-> ""]
    /\ saved = NoFile

\* pricing.regenerate_all_prices()
Regenerate ==
    /\ \E rf \in PricingFactors :
        LET city == PricingCity(markets[1].city)
            fruit == PricingFruit(CHOOSE n \in DOMAIN markets[1].prices : TRUE)
        IN  /\ markets' = priced_market(city, fruit, rf)
            /\ result' = Returned("regenerate", fruit.name, 0)
    /\ UNCHANGED <<money, inventory, current_city, current_day, saved>>

SpecPricing == InitPricing /\ [][Regenerate]_vars

-----------------------------------------------------------------------------
(* PricingSystem.get_price on games of at most one fruit and at most one market *)

\* names a caller may ask a price for: the fruits and cities and one unknown each
LookupFruitArgs == {f.name : f \in PricingFruits} \cup {"UnknownFruit"}
LookupCityArgs == {c.name : c \in PricingCities} \cup {"Atlantis"}

\* PricingSystem(game): a game without any market, a game of one city and no
\* fruit, a game of one city and one fruit
InitLookup ==
    /\ money = 0
    /\ inventory = EmptyDict
    /\ current_day = 1
    /\ \E city \in PricingCities :
            /\ current_city = city.name
            /\ \/ markets = <<>>
               \/ markets = << [city |-> city.name, prices |-> EmptyDict] >>
               \/ \E fruit \in PricingFruits, rf \in PricingFactors :
                      markets = priced_market(city, fruit, rf)
    /\ result = [op |-> "init", name |-> "", quantity |-> 0,
                 returned |-> TRUE, error |-> ""]
    /\ saved = NoFile

\* pricing.regenerate_all_prices() on such a game: its fruits are the keys the
\* construction gave the market
RegenerateLookup ==
    /\ \E rf \in PricingFactors :
            markets' = [k \in 1..Len(markets) |->
                          [city |-> markets[k].city,
                           prices |-> [n \in DOMAIN markets[k].prices |->
                                         price_of(PricingCity(markets[k].city),
                                                  PricingFruit(n), rf)]]]
    /\ result' = Returned("regenerate", "", 0)
    /\ UNCHANGED <<money, inventory, current_city, current_day, saved>>

\* pricing.get_price(fruit_name, city_name): the call and the value it returned
GetPrice ==
    /\ \E n \in LookupFruitArgs, c \in LookupCityArgs :
            result' = [op |-> "get_price", name |-> n, quantity |-> 0,
                       returned |-> TRUE, error |-> "",
                       city |-> c, value |-> get_price(n, c)]
    /\ UNCHANGED <<money, inventory, current_city, current_day, markets, saved>>

NextLookup == RegenerateLookup \/ GetPrice

SpecLookup == InitLookup /\ [][NextLookup]_vars

-----------------------------------------------------------------------------
(* Properties of the transaction engine *)

\* the last call, as a step sees it: result' holds the call the step made
CallWas(op) == result'.op = op
Succeeded == result'.returned
Failed == ~result'.returned

\* the current city's market lists a price for name
Listed(name) ==
    /\ get_current_market # None
    /\ name \in DOMAIN get_current_market.prices

\* C1: with calls of positive quantity only, the player's money is never negative.
C1_MoneyNeverNegative == money >= 0

\* a travel paid with the player's last 50
C1_Witness ==
    /\ result.op = "travel"
    /\ result.returned
    /\ money = 0

\* C2: with calls of positive quantity only, no held quantity is ever negative.
C2_InventoryNeverNegative == \A k \in DOMAIN inventory : inventory[k] >= 0

\* a sale of a single unit that emptied the holding
C2_Witness ==
    /\ result.op = "sell"
    /\ result.returned
    /\ result.quantity = 1
    /\ inventory[result.name] = 0

\* C3: a buy with quantity <= 0 does not succeed and leaves money and inventory
\* as they were.
C3_BuyRejectsNonPositiveQuantity ==
    [][ (CallWas("buy") /\ result'.quantity <= 0)
            => (Failed /\ money' = money /\ inventory' = inventory) ]_vars

\* C4: a successful buy(c, q) takes exactly q times the price get_price(c, current
\* city) gave before the call, adds exactly q to the holding of c (an entry absent
\* before is created at q), returns True and changes no other holding.
C4_BuyEffect ==
    [][ (CallWas("buy") /\ Succeeded) =>
            LET c == result'.name
                q == result'.quantity
            IN  /\ money' = money - q * get_price(c, current_city)
                /\ c \in DOMAIN inventory'
                /\ inventory'[c] = Get(inventory, c, 0) + q
                /\ DOMAIN inventory' = (DOMAIN inventory) \cup {c}
                /\ \A k \in (DOMAIN inventory) \ {c} : inventory'[k] = inventory[k] ]_vars

\* two bananas bought by a player who held none, beside another holding
C4_Witness ==
    /\ result.op = "buy"
    /\ result.returned
    /\ result.name = "Banana"
    /\ result.quantity = 2
    /\ inventory["Banana"] = 2
    /\ "Apple" \in DOMAIN inventory

\* C5: a buy of a listed fruit whose price times quantity exceeds the player's
\* money fails with 'Not enough funds to buy <quantity> <fruit>' and changes
\* nothing: money, inventory (no entry appears), city, day and prices stay.
C5_BuyUnaffordableFails ==
    [][ ( /\ CallWas("buy")
          /\ Listed(result'.name)
          /\ get_price(result'.name, current_city) * result'.quantity > money )
        => ( /\ Failed
             /\ result'.error = "Not enough funds to buy "
                    \o ToString(result'.quantity) \o " " \o result'.name
             /\ UNCHANGED <<money, inventory, current_city, current_day, markets>> ) ]_vars

\* a refused buy of a fruit the player has no entry for
C5_Witness ==
    /\ result.op = "buy"
    /\ ~result.returned
    /\ result.error = "Not enough funds to buy 1 Banana"
    /\ "Banana" \notin DOMAIN inventory

\* C6: a successful sell(c, q) adds exactly q times the current market price of c
\* to the money and takes exactly q from the holding of c; a holding sold whole
\* stays in the inventory at 0.
C6_SellEffect ==
    [][ (CallWas("sell") /\ Succeeded) =>
            LET c == result'.name
                q == result'.quantity
            IN  /\ money' = money + q * get_price(c, current_city)
                /\ c \in DOMAIN inventory
                /\ c \in DOMAIN inventory'
                /\ inventory'[c] = inventory[c] - q
                /\ (q = inventory[c] => inventory'[c] = 0) ]_vars

\* a holding of two sold whole
C6_Witness ==
    /\ result.op = "sell"
    /\ result.returned
    /\ result.quantity = 2
    /\ result.name \in DOMAIN inventory
    /\ inventory[result.name] = 0

\* C7 as stated: whenever the quantity exceeds the holding (none counting as 0),
\* sell fails with 'Not enough <fruit> to sell <quantity>' and changes nothing.
C7_SellOverHoldingFails_AsStated ==
    [][ ( /\ CallWas("sell")
          /\ result'.quantity > Get(inventory, result'.name, 0) )
        => ( /\ Failed
             /\ result'.error = "Not enough " \o result'.name
                    \o " to sell " \o ToString(result'.quantity)
             /\ UNCHANGED <<money, inventory, current_city, current_day, markets>> ) ]_vars

\* C7, amended: for a fruit the current market lists, whenever the quantity
\* exceeds the holding (none counting as 0), sell fails with
\* 'Not enough <fruit> to sell <quantity>' and changes nothing.
C7_SellOverHoldingFails ==
    [][ ( /\ CallWas("sell")
          /\ Listed(result'.name)
          /\ result'.quantity > Get(inventory, result'.name, 0) )
        => ( /\ Failed
             /\ result'.error = "Not enough " \o result'.name
                    \o " to sell " \o ToString(result'.quantity)
             /\ UNCHANGED <<money, inventory, current_city, current_day, markets>> ) ]_vars

\* a refused sale of two apples by a player who holds one
C7_Witness ==
    /\ result.op = "sell"
    /\ ~result.returned
    /\ result.error = "Not enough Apple to sell 2"
    /\ Get(inventory, "Apple", 0) = 1

\* C8: a buy or sell of a name the current market's price mapping does not hold
\* fails with 'Fruit not found in market: <name>' and changes neither money nor
\* inventory, whatever the player's money or holding of that name.
C8_UnlistedFruitFails ==
    [][ ( /\ (CallWas("buy") \/ CallWas("sell"))
          /\ get_current_market # None
          /\ result'.name \notin DOMAIN get_current_market.prices )
        => ( /\ Failed
             /\ result'.error = "Fruit not found in market: " \o result'.name
             /\ money' = money
             /\ inventory' = inventory ) ]_vars

\* a refused sale of a fruit the player holds but the market does not list
C8_Witness ==
    /\ result.op = "sell"
    /\ ~result.returned
    /\ result.error = "Fruit not found in market: Kiwi"
    /\ Get(inventory, "Kiwi", 0) >= result.quantity

\* C9: a successful travel(name) puts the player in the city of that name, takes
\* exactly 50 from the money, adds exactly 1 to the day, returns True and leaves
\* the inventory as it was.
C9_TravelEffect ==
    [][ (CallWas("travel") /\ Succeeded) =>
            /\ result'.name \in CityNames
            /\ current_city' = result'.name
            /\ money' = money - 50
            /\ current_day' = current_day + 1
            /\ inventory' = inventory ]_vars

\* a travel to the other city by a player who holds fruit
C9_Witness ==
    /\ result.op = "travel"
    /\ result.returned
    /\ current_city = "Tampere"
    /\ current_day = 2
    /\ Get(inventory, "Apple", 0) > 0

\* C10: a travel to a name that is no city fails with 'City not found: <name>'
\* and leaves the day, the money, the city and every market's prices as they were.
C10_TravelUnknownCityFails ==
    [][ (CallWas("travel") /\ result'.name \notin CityNames)
        => ( /\ Failed
             /\ result'.error = "City not found: " \o result'.name
             /\ UNCHANGED <<current_day, money, current_city, markets>> ) ]_vars

\* a refused travel to an unknown city by a player who could pay for one
C10_Witness ==
    /\ result.op = "travel"
    /\ ~result.returned
    /\ result.name = "InvalidCity"
    /\ money >= 50

\* C11: when a travel to an existing city fails for lack of funds, the message
\* states the shortfall 50 - money as the amount 'more' that is needed.
C11_TravelMessageStatesShortfall ==
    [][ ( /\ CallWas("travel")
          /\ result'.name \in CityNames
          /\ money < 50 )
        => result'.error = "Not enough funds to travel to " \o result'.name
               \o ". You need " \o ToString(50 - money) \o " more." ]_vars

\* C12: a travel to an existing city with money below 50 fails and changes
\* nothing: money, city, day and every market's prices stay.
C12_TravelUnaffordableFails ==
    [][ ( /\ CallWas("travel")
          /\ result'.name \in CityNames
          /\ money < 50 )
        => ( /\ Failed
             /\ UNCHANGED <<money, current_city, current_day, markets>> ) ]_vars

\* a refused travel to a city of the world by a player with some money left
C12_Witness ==
    /\ result.op = "travel"
    /\ ~result.returned
    /\ result.name = "Tampere"
    /\ money > 0
    /\ money < 50

\* C13: a new game starts at day 1, and the day changes only in a successful
\* travel, by exactly +1: every other step leaves it as it was, so the day is
\* its initial value plus the number of successful travels and never decreases.
C13_DayCountsSuccessfulTravels ==
    /\ current_day = 1
    /\ [][ IF CallWas("travel") /\ Succeeded
           THEN current_day' = current_day + 1
           ELSE current_day' = current_day ]_vars

\* a purchase made on the second day, after one travel
C13_Witness ==
    /\ current_day = 2
    /\ result.op = "buy"
    /\ result.returned

\* C14: buy and sell, successful or failed, and every failed travel leave the
\* price mapping of every market as it was.
C14_OnlyTravelChangesPrices ==
    [][ (CallWas("buy") \/ CallWas("sell") \/ (CallWas("travel") /\ Failed))
        => markets' = markets ]_vars

\* a travel refused for lack of funds on the second day
C14_Witness ==
    /\ result.op = "travel"
    /\ ~result.returned
    /\ result.name \in CityNames
    /\ current_day = 2

\* C15: whenever a travel to an existing city can succeed, the regeneration it
\* runs re-draws every fruit of every market, each (market, fruit) pair with a
\* random factor of its own: whatever one factor per pair is drawn, the travel
\* can end with exactly the prices those factors give, in all the markets.
C15_TravelRedrawsEveryPrice ==
    \A c \in CityNames :
        money >= travel_cost =>
            \A draws \in Draws :
                ENABLED ( /\ travel(c)
                          /\ UNCHANGED saved
                          /\ result'.returned
                          /\ \A k \in 1..Len(markets), i \in 1..Len(fruits) :
                                markets'[k].prices[fruits[i].name] =
                                    price_of(CityByName(markets[k].city),
                                             fruits[i], draws[k][i]) )

\* a travel that succeeded and gave the two fruits of one market different factors,
\* and the market the player did not travel to new prices as well
C15_Witness ==
    /\ result.op = "travel" /\ result.returned /\ current_city = "Tampere"
    /\ markets[1].prices["Apple"] = price_of(cities[1], fruits[1], 120)
    /\ markets[1].prices["Banana"] = price_of(cities[1], fruits[2], 80)
    /\ markets[2].prices["Apple"] = price_of(cities[2], fruits[1], 80)
    /\ markets[2].prices["Banana"] = price_of(cities[2], fruits[2], 120)

\* the price mappings of a market list, city by city
prices_of(ms) == [k \in 1..Len(ms) |-> [city |-> ms[k].city, prices |-> ms[k].prices]]

\* C16: over a session of new game, buy, sell, travel, save, quit and load, the
\* prices are re-drawn only by a new game and by a successful travel: every
\* other step leaves them as they are, and a load brings back exactly the
\* prices the save file holds.
C16_PricesRedrawnOnlyByNewGameAndTravel ==
    [][ IF CallWas("new") \/ (CallWas("travel") /\ Succeeded)
        THEN TRUE
        ELSE IF CallWas("load") /\ Succeeded
             THEN prices_of(markets') = prices_of(saved.markets)
             ELSE markets' = markets ]_vars

\* C17: when the save file holds the engine as store_game wrote it, the engine
\* load_game returns has the same money, inventory, city and day, and the same
\* prices in every market.
C17_StoreThenLoadPreservesEngine ==
    [][ ( /\ CallWas("load") /\ Succeeded
          /\ saved = serialize_game(game) )
        => /\ money' = money
           /\ inventory' = inventory
           /\ current_city' = current_city
           /\ current_day' = current_day
           /\ prices_of(markets') = prices_of(markets) ]_vars

\* C18: the Game that deserialize_game rebuilds from what serialize_game made
\* of the engine equals the engine's Game: fruits, cities, the player's name,
\* money, inventory and city, the markets with their cities and prices, the day.
C18_DeserializeInvertsSerialize ==
    result.op \in {"new", "save"} =>
        /\ saved = serialize_game(game)
        /\ deserialize_game(saved) = game

\* a save made in the second city on the second day, the inventory holding the
\* entry that a purchase and its sale left behind
C18_Witness ==
    /\ result.op = "save"
    /\ current_city = "Tampere"
    /\ current_day = 2
    /\ inventory # EmptyDict
    /\ deserialize_game(saved).player.current_city = cities[2]

\* C19: after every regeneration the price of every fruit in every market is
\* within floor(base * m * 0.8) .. floor(base * m * 1.2), where m is the city's
\* specialty for the fruit and exactly 1.0 when the city has none.
C19_PriceWithinRange ==
    \A k \in 1..Len(markets) : \A n \in DOMAIN markets[k].prices :
        LET city == PricingCity(markets[k].city)
            base == PricingFruit(n).base_price
            m == IF n \in DOMAIN city.specialties THEN city.specialties[n] ELSE 100
            price == get_price(n, city.name)
        IN  /\ price \in Int
            /\ (base * m * 80) \div 10000 <= price
            /\ price <= (base * m * 120) \div 10000

\* C20: after every regeneration a fruit whose base price is positive has a
\* price above 0 in every market.
C20_PricePositive ==
    \A k \in 1..Len(markets) : \A n \in DOMAIN markets[k].prices :
        PricingFruit(n).base_price > 0 => get_price(n, markets[k].city) > 0

\* C21: get_price returns 0, raising nothing, when no market has the city name
\* or the market of that city has no entry for the fruit name (a market of a
\* game without fruits has none at all); otherwise it returns the stored
\* price; in every case it changes nothing.
C21_GetPriceZeroWhenAbsent ==
    [][ CallWas("get_price") =>
        LET n == result'.name
            c == result'.city
        IN  /\ Succeeded
            /\ UNCHANGED <<money, inventory, current_city, current_day, markets, saved>>
            /\ (\A k \in 1..Len(markets) : markets[k].city # c) => result'.value = 0
            /\ \A k \in 1..Len(markets) :
                   markets[k].city = c =>
                       IF n \in DOMAIN markets[k].prices
                       THEN result'.value = markets[k].prices[n]
                       ELSE result'.value = 0 ]_vars

\* a price asked in the market of a game that has no fruit
C21_Witness ==
    /\ result.op = "get_price"
    /\ Len(markets) = 1
    /\ markets[1].prices = EmptyDict
    /\ result.city = markets[1].city
    /\ result.value = 0

C23_EveryMarketListsEveryFruit ==
    /\ Len(markets) = Len(empty_markets)
    /\ \A k \in 1..Len(markets) :
        /\ DOMAIN markets[k].prices = FruitNames
        /\ \A n \in FruitNames : get_price(n, markets[k].city) = markets[k].prices[n]

\* the engine as constructed, before its first call, both tables filled
C23_Witness ==
    /\ result.op = "init"
    /\ current_day = 1
    /\ \A k \in 1..Len(cities) : \A n \in FruitNames : markets[k].prices[n] > 0

\* C24: in the world setup_data builds, after any buy, sell and travel calls
\* the player's city is a city of the game and exactly one market is that
\* city's, so the market lookup of buy and sell never fails with 'No market
\* for ...'; the markets stay one per city, in the cities' order.
C24_PlayerCityHasOneMarket ==
    /\ current_city \in CityNames
    /\ Cardinality({k \in 1..Len(markets) : markets[k].city = current_city}) = 1
    /\ get_current_market # None
    /\ result.error # "No market for " \o current_city
    /\ Len(markets) = Len(cities)
    /\ \A k \in 1..Len(markets) : markets[k].city = cities[k].name

\* a purchase in the city the player travelled to
C24_Witness ==
    /\ result.op = "buy" /\ result.returned
    /\ current_city = "Tampere"
    /\ current_day = 2

\* a save file that has every key deserialize_game reads and whose city names
\* name cities of the file
WellFormed(d) ==
    /\ {"fruits", "cities", "markets", "player", "current_day"} \subseteq DOMAIN d
    /\ \A i \in 1..Len(d.fruits) : {"name", "base_price"} \subseteq DOMAIN d.fruits[i]
    /\ \A i \in 1..Len(d.cities) : {"name", "specialties"} \subseteq DOMAIN d.cities[i]
    /\ \A k \in 1..Len(d.markets) :
           /\ {"city", "prices"} \subseteq DOMAIN d.markets[k]
           /\ \E i \in 1..Len(d.cities) : d.cities[i].name = d.markets[k].city
    /\ {"name", "money", "inventory", "current_city"} \subseteq DOMAIN d.player
    /\ \E i \in 1..Len(d.cities) : d.cities[i].name = d.player.current_city

\* C25: menu choice 2 on a JSON save that lacks a top-level key, a field of a
\* fruit, city, market or player record, or names a city it does not hold:
\* the load fails with an error the menu reports, and the menu shows again; the
\* programme does not end there and no game loop starts.
C25_MalformedSaveIsReported ==
    [][ ( /\ AtMenu
          /\ saved # NoFile /\ saved # Corrupted /\ ~WellFormed(saved)
          /\ result' # result )
        => /\ CallWas("load")
           /\ Failed
           /\ result'.error # ""
           /\ AtMenu'
           /\ ~Crashed'
           /\ UNCHANGED <<money, inventory, current_city, current_day, markets, saved>> ]_vars

\* C26: a regeneration replaces every market's price mapping: after a load
\* (whose engine construction regenerates) and after a successful travel the
\* keys of every market are exactly the fruit names of the game, so a price
\* the file held for another name is gone.
C26_RegenerationReplacesMapping ==
    [][ ( \/ CallWas("load") /\ Succeeded
          \/ CallWas("travel") /\ Succeeded )
        => \A k \in 1..Len(markets') : DOMAIN markets'[k].prices = FruitNames ]_vars

\* a game loaded from the file that priced Durian and not Banana
C26_Witness ==
    /\ result.op = "load" /\ result.returned
    /\ saved = stale_save
    /\ "Durian" \in DOMAIN saved.markets[1].prices
    /\ DOMAIN markets[1].prices = FruitNames

\* C27: the checks run in a fixed order. A buy of a fruit the current market
\* does not list fails as 'Fruit not found in market' also when the player has
\* no money at all, and a travel to a name that is no city fails as 'City not
\* found' also when the player has less than the travel cost.
C27_ChecksInFixedOrder ==
    [][ /\ ( /\ CallWas("buy")
              /\ get_current_market # None
              /\ ~Listed(result'.name)
              /\ money = 0 )
            => /\ Failed
               /\ result'.error = "Fruit not found in market: " \o result'.name
        /\ ( /\ CallWas("travel")
              /\ result'.name \notin CityNames
              /\ money < 50 )
            => /\ Failed
               /\ result'.error = "City not found: " \o result'.name ]_vars

\* a travel to an unknown city refused as such, the player without any money
C27_Witness ==
    /\ result.op = "travel" /\ ~result.returned
    /\ result.name = "InvalidCity"
    /\ result.error = "City not found: InvalidCity"
    /\ money = 0

\* C28: when no market of the game is the market of the player's city, buy and
\* sell fail with 'No market for <city>', whatever the fruit name, the quantity,
\* the money and the holding, and change nothing.
C28_NoMarketFailsFirst ==
    [][ ( /\ CallWas("buy") \/ CallWas("sell")
          /\ \A k \in 1..Len(markets) : markets[k].city # current_city )
        => /\ Failed
           /\ result'.error = "No market for " \o current_city
           /\ UNCHANGED <<money, inventory, current_city, current_day, markets>> ]_vars

\* a sale of a held fruit of unknown name refused for the missing market, in
\* the city the player travelled to
C28_Witness ==
    /\ result.op = "sell" /\ ~result.returned
    /\ result.name = "Kiwi"
    /\ Get(inventory, "Kiwi", 0) >= result.quantity
    /\ current_city = "Tampere"
    /\ result.error = "No market for Tampere"

\* ---------------------------------------------------------------------
\* the command layer: execute_command on the engine of a new game
\* ---------------------------------------------------------------------

\* command names: one of each kind execute_command tells apart, and a word
\* that is not a command
CommandNames ==
    {"help", "save", "quit", "buy", "sell", "travel", "dance"}

\* words typed where a fruit is expected
FruitWords == {"apple", "KIWI"}

\* words typed where a city is expected
CityWords == {"tampere", "HELSINKI", "atlantis"}

\* the largest integer typed: past the quantities and the menu choices
MaxInt == MaxQty + 2

\* the decimal numerals, as Python writes them
Numerals == { ToString(n) : n \in (0 - MaxInt)..MaxInt }

\* words typed where a quantity is expected; "^2" stands for the
\* one-character string SUPERSCRIPT TWO (U+00B2)
QuantityWords == { ToString(n) : n \in 0..MaxQty } \cup {"-1", "two", "^2"}

\* str.capitalize: first character upper case, the rest lower case
capitalize(s) ==
    CASE s = "apple" -> "Apple"
      [] s = "KIWI" -> "Kiwi"
      [] s = "tampere" -> "Tampere"
      [] s = "HELSINKI" -> "Helsinki"
      [] s = "atlantis" -> "Atlantis"
      [] s = "two" -> "Two"
      [] OTHER -> s

\* str.isdigit with a leading sign let through
isdigit_signed(s) ==
    \/ s \in Numerals
    \/ s = "^2"

\* str.isdigit: non-empty and every character a digit (superscript
\* digits are digits to isdigit; a sign and a decimal point are not)
isdigit(s) ==
    \/ \E n \in 0..MaxQty : s = ToString(n)
    \/ s = "^2"

\* int(s) raises ValueError: s is not a decimal numeral
int_raises(s) == s \notin Numerals

\* int(s)
int(s) == CHOOSE n \in (0 - MaxInt)..MaxInt : ToString(n) = s

\* str(e) of the ValueError int(s) raises
invalid_literal(s) == "invalid literal for int() with base 10: '" \o s \o "'"

\* an error rendered, and False returned
Rendered_and_left(command, msg) ==
    /\ result' = [op |-> "command", name |-> command, quantity |-> 0,
                  returned |-> FALSE, error |-> msg]
    /\ UNCHANGED <<money, inventory, current_city, current_day, markets, saved>>

\* execute_command returned True without calling the engine, after
\* rendering msg as an error ("" when nothing was rendered as an error)
Rendered(command, msg) ==
    /\ result' = [op |-> "command", name |-> command, quantity |-> 0,
                  returned |-> TRUE, error |-> msg]
    /\ UNCHANGED <<money, inventory, current_city, current_day, markets, saved>>

\* execute_command(engine, command, args); for quit and exit the result
\* records the False it returns
execute_command(command, args) ==
    IF command \in {"help", "status"} THEN Rendered(command, "")
    ELSE IF command = "save" THEN
        /\ store_game
        /\ result' = Returned("save", "", 0)
    ELSE IF command \in {"quit", "exit"} THEN
        /\ result' = [op |-> "quit", name |-> command, quantity |-> 0,
                      returned |-> FALSE, error |-> ""]
        /\ UNCHANGED <<money, inventory, current_city, current_day, markets, saved>>
    ELSE IF command = "buy" THEN
        IF Len(args) # 2 THEN Rendered(command, "Usage: buy <fruit> <quantity>")
        ELSE IF ~isdigit(args[2]) THEN Rendered(command, "Quantity must be a number")
        ELSE IF int_raises(args[2]) THEN Rendered(command, invalid_literal(args[2]))
        ELSE /\ buy(capitalize(args[1]), int(args[2]))
             /\ UNCHANGED saved
    ELSE IF command = "sell" THEN
        IF Len(args) # 2 THEN Rendered(command, "Usage: sell <fruit> <quantity>")
        ELSE IF ~isdigit(args[2]) THEN Rendered(command, "Quantity must be a number")
        ELSE IF int_raises(args[2]) THEN Rendered(command, invalid_literal(args[2]))
        ELSE /\ sell(capitalize(args[1]), int(args[2]))
             /\ UNCHANGED saved
    ELSE IF command = "travel" THEN
        IF Len(args) # 1 THEN Rendered(command, "Usage: travel <city>")
        ELSE /\ \/ current_day < MaxDay
                \/ find_city(capitalize(args[1])) = None
                \/ not_enough_travel_funds(money)
             /\ travel(capitalize(args[1]))
             /\ UNCHANGED saved
    ELSE Rendered(command, "")

\* the argument lists typed after a command: none, one word, a fruit and
\* a quantity, and one word too many
ArgLists(command) ==
    IF command \in {"buy", "sell"}
    THEN {<<>>, <<"apple">>, <<"apple", "1", "please">>}
           \cup { <<f, q>> : f \in FruitWords, q \in QuantityWords }
    ELSE IF command = "travel"
    THEN {<<>>, <<"apple">>, <<"tampere", "1">>} \cup { <<w>> : w \in CityWords }
    ELSE {<<>>, <<"apple">>}

\* the engine of a new game: nothing held, nothing saved
InitCommands ==
    /\ money \in NewGameMoney
    /\ inventory = EmptyDict
    /\ current_city = cities[1].name
    /\ current_day = 1
    /\ \E draws \in Draws : markets = regenerate_all_prices(empty_markets, draws)
    /\ result = [op |-> "init", name |-> "", quantity |-> 0,
                 returned |-> TRUE, error |-> ""]
    /\ saved = NoFile

\* one command line given to execute_command
Command ==
    \E command \in CommandNames :
        \E args \in ArgLists(command) : execute_command(command, args)

SpecCommands == InitCommands /\ [][Command]_vars

\* ---------------------------------------------------------------------
\* game_loop: lines read at the prompt until execute_command returns False
\* ---------------------------------------------------------------------

COMMANDS == {"help", "buy", "sell", "travel", "status", "save", "quit", "exit"}

\* first words typed at the prompt
LoopWords == CommandNames \cup {"QUIT", "exit", "status"}

\* str.lower
lower(s) ==
    CASE s = "QUIT" -> "quit"
      [] OTHER -> s

\* the lines typed at the prompt, as the words cmd.strip().split() gives:
\* the empty line, and a first word followed by arguments
LoopLines ==
    {<<>>} \cup UNION { { <<w>> \o a : a \in ArgLists(lower(w)) } : w \in LoopWords }

\* parse_command(cmd): None for an empty line and for a first word that is
\* not in COMMANDS
parse_command(parts) ==
    IF parts = <<>> THEN None
    ELSE IF lower(parts[1]) \notin COMMANDS THEN None
    ELSE [command |-> lower(parts[1]), args |-> Tail(parts)]

\* the game loop has returned: execute_command returned False
LoopReturned ==
    /\ result.op \notin {"buy", "sell", "travel"}
    /\ ~result.returned

\* one pass of the while loop of game_loop
Prompt ==
    /\ ~LoopReturned
    /\ \E parts \in LoopLines :
         LET parsed == parse_command(parts) IN
         IF parsed = None
         THEN Rendered(IF parts = <<>> THEN "" ELSE parts[1],
                       IF parts = <<>> THEN "" ELSE "Invalid command")
         ELSE execute_command(parsed.command, parsed.args)

SpecLoop == InitCommands /\ [][Prompt]_vars

\* ---------------------------------------------------------------------
\* cli(): the main menu around start_new_game, load_game and game_loop
\* ---------------------------------------------------------------------

\* what is typed at the menu prompt
MenuWords == {"1", "2", "3", "0", "4", "-1", "two", ""}

\* the file at GAME_FILE when the programme starts: none, not JSON, a good
\* save, a save lacking a top-level key, a save whose fruit lacks a field
MenuFiles ==
    { NoFile,
      Corrupted,
      good_save,
      Without(good_save, "markets"),
      [good_save EXCEPT !.fruits[1] = Without(@, "base_price")] }

\* the programme starts at the main menu, no engine built
InitMenu ==
    /\ money = 0
    /\ inventory = EmptyDict
    /\ current_city = ""
    /\ current_day = 0
    /\ markets = <<>>
    /\ result = [op |-> "menu", name |-> "", quantity |-> 0,
                 returned |-> TRUE, error |-> ""]
    /\ saved \in MenuFiles

\* one pass of the menu loop of cli(): the choice is read until it is 1, 2
\* or 3, then acted on
Menu ==
    /\ AtMenu
    /\ \E word \in MenuWords :
         IF int_raises(word) \/ int(word) \notin {1, 2, 3}
         THEN /\ result' = [op |-> "menu", name |-> word, quantity |-> 0,
                            returned |-> TRUE, error |-> "Invalid choice."]
              /\ UNCHANGED <<money, inventory, current_city, current_day, markets, saved>>
         ELSE IF int(word) = 1 THEN NewGame
         ELSE IF int(word) = 2 THEN load_game
         ELSE /\ result' = [op |-> "exit", name |-> word, quantity |-> 0,
                            returned |-> TRUE, error |-> ""]
              /\ UNCHANGED <<money, inventory, current_city, current_day, markets, saved>>

\* the menu, and in the game loop the commands that write no file
NextMenu == Menu \/ SessionBuy \/ SessionSell \/ SessionTravel \/ Quit

SpecMenu == InitMenu /\ [][NextMenu]_vars

\* C29: a buy or sell command with two arguments is either rejected with
\* 'Quantity must be a number', the engine not called, or calls engine.buy /
\* engine.sell with a positive integer quantity (never 0, never negative).
C29_QuantityRangeChecked ==
    [][ ( \/ CallWas("buy")
          \/ CallWas("sell")
          \/ /\ CallWas("command")
             /\ result'.name \in {"buy", "sell"}
             /\ result'.error \notin {"Usage: buy <fruit> <quantity>",
                                      "Usage: sell <fruit> <quantity>"} )
        => \/ /\ CallWas("command")
              /\ result'.error = "Quantity must be a number"
           \/ /\ CallWas("buy") \/ CallWas("sell")
              /\ result'.quantity >= 1 ]_vars

\* C30: through the command layer, money and every inventory quantity stay
\* at or above zero.
C30_CommandsKeepNonNegative ==
    /\ money >= 0
    /\ \A f \in DOMAIN inventory : inventory[f] >= 0

\* a purchase through the command layer that takes the last of the money
C30_Witness ==
    /\ result.op = "buy" /\ result.returned
    /\ result.quantity >= 1
    /\ inventory[result.name] = result.quantity
    /\ money = 0

\* C31: game_loop returns only after a quit or exit command: every other
\* line (unknown command, empty line, wrong argument count, engine error,
\* successful command) leaves the loop prompting.
C31_LoopReturnsOnlyOnQuit ==
    [][ LoopReturned' <=> /\ result'.op = "quit"
                          /\ result'.name \in {"quit", "exit"} ]_vars

\* the loop has returned on exit, after a save and a purchase
C31_Witness ==
    /\ LoopReturned
    /\ result.name = "exit"
    /\ saved # NoFile
    /\ inventory # EmptyDict

\* C32: help, status and save, and every rejected line (unknown command,
\* wrong argument count, non-numeric quantity), leave money, inventory,
\* current city, current day and all market prices unchanged.
C32_RejectedAndPassiveCommandsChangeNothing ==
    [][ result'.op \in {"command", "save"}
        => UNCHANGED <<money, inventory, current_city, current_day, markets>> ]_vars

\* a non-numeric quantity rejected in a game that has traded and been saved
C32_Witness ==
    /\ result.op = "command"
    /\ result.name = "sell"
    /\ result.error = "Quantity must be a number"
    /\ inventory # EmptyDict
    /\ saved # NoFile

\* C33: the menu acts only on the choices 1, 2 and 3 and re-prompts on
\* anything else without running an action; choice 1 stores the new game
\* and then enters the game loop; after the game loop returns or a load
\* fails the menu is shown again; cli() returns only on choice 3.
C33_MenuFlow ==
    [][ /\ result'.op = "menu"
            => /\ AtMenu /\ AtMenu'
               /\ result'.name \notin {"1", "2", "3"}
               /\ UNCHANGED <<money, inventory, current_city, current_day, markets, saved>>
        /\ result'.op = "new"
            => /\ AtMenu /\ InGame'
               /\ saved' = serialize_game(game)'
        /\ result'.op = "quit" => AtMenu'
        /\ (AtMenu /\ ~InGame' /\ ~Exited') => AtMenu'
        /\ Exited' => AtMenu /\ result'.name = "3" ]_vars

\* the value, at the given prices, of what is held of the named fruits
RECURSIVE holdings_value(_, _, _)
holdings_value(names, prices, inv) ==
    IF names = {} THEN 0
    ELSE LET f == CHOOSE x \in names : TRUE
         IN  prices[f] * Get(inv, f, 0) + holdings_value(names \ {f}, prices, inv)

\* money plus the holdings of the fruits listed in the current market, at
\* that market's prices
wealth(m, inv) ==
    LET market == get_current_market
    IN  m + holdings_value(DOMAIN market.prices, market.prices, inv)

plum == [name |-> "Plum", base_price |-> 20]

\* the money and the holdings the game is built with
StrandedMoney == {0, 9, 17, 25, 33}
StrandedInventories == { EmptyDict, [Plum |-> 1], [Plum |-> 2] }

\* GameEngine(game), the game made of plum and the cities of the world, the
\* player's money and holdings together worth less than travel_cost
InitStranded ==
    /\ money \in StrandedMoney
    /\ inventory \in StrandedInventories
    /\ current_city = cities[1].name
    /\ current_day = 1
    /\ \E draw \in [1..Len(cities) -> RandomFactors] :
          markets = [k \in 1..Len(cities) |->
                        [city |-> cities[k].name,
                         prices |-> [n \in {plum.name} |->
                                        price_of(cities[k], plum, draw[k])]]]
    /\ result = [op |-> "init", name |-> "", quantity |-> 0,
                 returned |-> TRUE, error |-> ""]
    /\ saved = NoFile
    /\ wealth(money, inventory) < travel_cost

\* buy and sell of the fruit of the game and of one it does not have
StrandedBuy ==
    \E f \in {plum.name, "Kiwi"}, q \in Quantities : buy(f, q) /\ UNCHANGED saved

StrandedSell ==
    \E f \in {plum.name, "Kiwi"}, q \in Quantities : sell(f, q) /\ UNCHANGED saved

StrandedTravel ==
    \E c \in CityArgs : travel(c) /\ UNCHANGED saved

NextStranded == StrandedBuy \/ StrandedSell \/ StrandedTravel

SpecStranded == InitStranded /\ [][NextStranded]_vars

C36_FundsChecksInclusive ==
    [][ /\ ( /\ CallWas("buy")
             /\ Listed(result'.name)
             /\ get_current_market.prices[result'.name] * result'.quantity = money )
           => Succeeded /\ money' = 0
        /\ ( /\ CallWas("travel")
             /\ result'.name \in CityNames
             /\ money = travel_cost )
           => Succeeded /\ money' = 0 ]_vars

\* the last of the money spent on travel by a player holding fruit
C36_Witness ==
    /\ result.op = "travel" /\ result.returned
    /\ money = 0
    /\ current_day = 2
    /\ inventory # EmptyDict

\* C37: travel to the city the player is in is not refused: with money of at
\* least the travel cost it succeeds, charges the travel cost, advances the
\* day by one and gives every market new prices, and the player stays where
\* they are.
C37_TravelToOwnCity ==
    [][ ( /\ CallWas("travel")
          /\ result'.name = current_city
          /\ money >= travel_cost )
        => /\ Succeeded
           /\ money' = money - travel_cost
           /\ current_day' = current_day + 1
           /\ current_city' = current_city
           /\ \E draws \in Draws : markets' = regenerate_all_prices(markets, draws)
           /\ UNCHANGED inventory ]_vars

\* the player stayed in the first city for the price of a journey, and the
\* prices there changed
C37_Witness ==
    /\ result.op = "travel" /\ result.returned
    /\ result.name = "Helsinki"
    /\ current_city = "Helsinki"
    /\ current_day = 2
    /\ money = 88
    /\ markets[1].prices["Apple"] = 132

\* C38: sell called with a quantity of zero or less changes no state: money
\* does not fall and the held quantity of the fruit does not rise.
C38_SellNonPositiveChangesNothing ==
    [][ (CallWas("sell") /\ result'.quantity <= 0)
        => /\ UNCHANGED <<money, inventory, current_city, current_day, markets>>
           /\ money' >= money
           /\ Get(inventory', result'.name, 0) <= Get(inventory, result'.name, 0) ]_vars

\* ---------------------------------------------------------------------
\* deserialize_game(serialize_game(engine)) next to the engine, in memory
\* ---------------------------------------------------------------------

\* the dict object that is the player's inventory: serialize_game and
\* deserialize_game hand the object on, they do not copy it
inventory_object == [object |-> "player.inventory"]

\* the dict object that is the k-th market's prices
prices_object(k) == [object |-> "market.prices", market |-> k]

\* the engine's game, its mutable mappings named rather than copied
game_objects ==
    [game EXCEPT !.player.inventory = inventory_object,
                 !.markets = [k \in 1..Len(markets) |->
                                 [@[k] EXCEPT !.prices = prices_object(k)]]]

\* what a mapping holds: an object's contents are read where the object is
contents(x) ==
    IF x = inventory_object THEN inventory
    ELSE IF \E k \in 1..Len(markets) : x = prices_object(k)
    THEN markets[CHOOSE k \in 1..Len(markets) : x = prices_object(k)].prices
    ELSE x

\* snapshot = deserialize_game(serialize_game(engine))
TakeSnapshot ==
    /\ saved' = deserialize_game(serialize_game(game_objects))
    /\ result' = Returned("snapshot", "", 0)
    /\ UNCHANGED <<money, inventory, current_city, current_day, markets>>

\* a day of trading on the engine, snapshots taken along the way (a travel
\* would give the markets new dicts and leave the old ones to the snapshot)
NextSnapshot == TakeSnapshot \/ Buy \/ Sell

SpecSnapshot == Init /\ [][NextSnapshot]_vars

\* the inventory and the price mappings of the snapshot, as read from it
snapshot_mappings ==
    [inventory |-> contents(saved.player.inventory),
     prices |-> [k \in 1..Len(saved.markets) |-> contents(saved.markets[k].prices)]]

\* C39: a buy or sell on the engine leaves the inventory and the price
\* mappings of a Game taken earlier by deserialize_game(serialize_game(engine))
\* as they were.
C39_SnapshotIndependent ==
    [][ (saved # NoFile /\ (CallWas("buy") \/ CallWas("sell")))
        => snapshot_mappings' = snapshot_mappings ]_vars

====
